---- MODULE Spec2Model ----
(***************************************************************************)
(* Employee scheduling system: Employee (employee.py), Scheduler           *)
(* (scheduler.py) and the menu loop (main.py).                             *)
(*                                                                         *)
(* The state is the Scheduler object (its employee list and its            *)
(* day -> shift -> names grid), the position of the running assign_shifts  *)
(* call in its loops, and the diagnostics the current run has printed.     *)
(***************************************************************************)
EXTENDS Integers, Sequences, FiniteSets, TLC

VARIABLES
    employees,      \* Scheduler.employees: sequence of Employee records
    schedule,       \* Scheduler.schedule: day -> shift -> sequence of names
    pc,             \* "menu" | "phase2" | "phase3" | "backfill" | "done"
    emp,            \* phase 2: index of the employee of the outer loop
    day,            \* phases 2 and 3: the day of the loop
    shift,          \* phase 3: index in shifts of the cell being staffed
    current_staff,  \* phase 3: len of the cell when its iteration began
    needed,         \* phase 3: MIN_EMPLOYEES_PER_SHIFT - current_staff
    assigned,       \* phase 3: assignments made to the cell so far
    available,      \* phase 3: the shuffled candidates not yet iterated
    out,            \* messages printed by the current assign_shifts run
    shuffled        \* the lists random.shuffle has returned in this run

vars == <<employees, schedule, pc, emp, day, shift, current_staff, needed,
          assigned, available, out, shuffled>>

----------------------------------------------------------------------------
(* Program constants (employee.py)                                          *)

MIN_EMPLOYEES_PER_SHIFT == 2
MAX_EMPLOYEES_PER_SHIFT == 8
MAX_WORK_DAYS_PER_WEEK == 5

(* Scheduler.days = list(range(7)), Scheduler.shifts, Scheduler.day_names   *)
NumDays == 7
days == 0 .. (NumDays - 1)
shifts == <<"Morning", "Afternoon", "Evening">>
Shift == {shifts[k] : k \in 1 .. Len(shifts)}

----------------------------------------------------------------------------
(* Bounds of the model                                                      *)

\* random.shuffle is explored over every permutation of a candidate list of
\* at most MaxShuffleLen employees; a longer list is explored with one
\* outcome only (its reversal).
MaxShuffleLen == 2

----------------------------------------------------------------------------
(* Dictionaries: a dict is a function whose DOMAIN is its key set           *)

EmptyDict == << >>

Put(d, k, v) == [x \in (DOMAIN d) \cup {k} |-> IF x = k THEN v ELSE d[x]]

\* dict.get(k): None when the key is absent
None == "None"
Get(d, k) == IF k \in DOMAIN d THEN d[k] ELSE None

----------------------------------------------------------------------------
(* Employee (employee.py)                                                   *)

Employee(name) ==
    [name |-> name, preferences |-> EmptyDict, schedule |-> EmptyDict,
     days_worked |-> 0]

set_preference(e, d, s) == [e EXCEPT !.preferences = Put(@, d, s)]

get_preference(e, d) == Get(e.preferences, d)

\* can_work_day without the weekly cap
can_work_day_no_cap(e, d) ==
    IF d \in DOMAIN e.schedule THEN FALSE ELSE TRUE

\* can_work_day without the test of the day being taken
can_work_day_any_day(e, d) == e.days_worked < MAX_WORK_DAYS_PER_WEEK

can_work_day(e, d) ==
    IF d \in DOMAIN e.schedule
    THEN FALSE
    ELSE e.days_worked < MAX_WORK_DAYS_PER_WEEK

\* assign_shift without its can_work_day guard
assign_shift_unguarded(e, d, s) ==
    [ok |-> TRUE,
     e  |-> [e EXCEPT !.schedule = Put(@, d, s), !.days_worked = @ + 1]]

\* Returns the pair of the return value and the employee afterwards.
assign_shift(e, d, s) ==
    IF ~can_work_day(e, d)
    THEN [ok |-> FALSE, e |-> e]
    ELSE [ok |-> TRUE,
          e  |-> [e EXCEPT !.schedule = Put(@, d, s),
                           !.days_worked = @ + 1]]

\* reset_schedule that leaves days_worked as it was
reset_schedule_keeps_days_worked(e) == [e EXCEPT !.schedule = EmptyDict]

\* reset_schedule that clears the preferences as well
reset_schedule_clears_preferences(e) ==
    [e EXCEPT !.schedule = EmptyDict, !.days_worked = 0,
              !.preferences = EmptyDict]

reset_schedule(e) == [e EXCEPT !.schedule = EmptyDict, !.days_worked = 0]

\* str.lower() on the names the model enters
Lower(name) ==
    CASE name = "E1" -> "e1"
      [] name = "E2" -> "e2"
      [] OTHER -> name

is_duplicate_name(e, name) == Lower(e.name) = Lower(name)

----------------------------------------------------------------------------
(* Scheduler (scheduler.py).  The helpers below work on a record           *)
(* w = [employees, schedule, out], the part of the state they change.      *)

EmptyGrid == [d \in days |-> [s \in Shift |-> << >>]]

World == [employees |-> employees, schedule |-> schedule, out |-> out]

\* _can_assign without the capacity test
_can_assign_no_capacity(w, i, d, s) ==
    IF ~can_work_day(w.employees[i], d) THEN FALSE ELSE TRUE

\* _can_assign that takes a cell for full one name early
_can_assign_full_one_early(w, i, d, s) ==
    IF ~can_work_day(w.employees[i], d)
    THEN FALSE
    ELSE IF Len(w.schedule[d][s]) >= MAX_EMPLOYEES_PER_SHIFT - 1
         THEN FALSE
         ELSE TRUE

_can_assign(w, i, d, s) ==
    IF ~can_work_day(w.employees[i], d)
    THEN FALSE
    ELSE IF Len(w.schedule[d][s]) >= MAX_EMPLOYEES_PER_SHIFT
         THEN FALSE
         ELSE TRUE

_assign(w, i, d, s) ==
    LET r == assign_shift(w.employees[i], d, s) IN
    IF r.ok
    THEN [w EXCEPT !.employees[i] = r.e,
                   !.schedule[d][s] = Append(@, r.e.name)]
    ELSE w

print(w, msg) == [w EXCEPT !.out = Append(@, msg)]

\* _reset_schedules that does not rebuild the grid
_reset_schedules_keeps_grid(w) ==
    [w EXCEPT !.employees = [i \in 1 .. Len(w.employees) |->
                                reset_schedule(w.employees[i])]]

_reset_schedules(w) ==
    [w EXCEPT !.employees = [i \in 1 .. Len(w.employees) |->
                                reset_schedule(w.employees[i])],
              !.schedule = EmptyGrid]


\* Strategy 1 going over self.shifts from its last shift to its first
RECURSIVE TrySameDay_backwards(_, _, _, _, _)
TrySameDay_backwards(w, i, preferred_day, preferred_shift, k) ==
    IF k > Len(shifts)
    THEN [found |-> FALSE, w |-> w]
    ELSE LET other_shift == shifts[Len(shifts) + 1 - k] IN
         IF other_shift # preferred_shift
            /\ _can_assign(w, i, preferred_day, other_shift)
         THEN [found |-> TRUE,
               w |-> print(_assign(w, i, preferred_day, other_shift),
                           [kind |-> "Resolved",
                            name |-> w.employees[i].name,
                            day |-> preferred_day, shift |-> other_shift,
                            how |-> "preferred shift full"])]
         ELSE TrySameDay_backwards(w, i, preferred_day, preferred_shift,
                                   k + 1)

\* Strategy 1 of _resolve_conflict: the loop over self.shifts from index k on.
\* Returns [found, w].
RECURSIVE TrySameDay(_, _, _, _, _)
TrySameDay(w, i, preferred_day, preferred_shift, k) ==
    IF k > Len(shifts)
    THEN [found |-> FALSE, w |-> w]
    ELSE LET other_shift == shifts[k] IN
         IF other_shift # preferred_shift
            /\ _can_assign(w, i, preferred_day, other_shift)
         THEN [found |-> TRUE,
               w |-> print(_assign(w, i, preferred_day, other_shift),
                           [kind |-> "Resolved",
                            name |-> w.employees[i].name,
                            day |-> preferred_day, shift |-> other_shift,
                            how |-> "preferred shift full"])]
         ELSE TrySameDay(w, i, preferred_day, preferred_shift, k + 1)

\* Strategy 2, inner loop: any shift of other_day, from index k on.
RECURSIVE TryAnyShift(_, _, _, _)
TryAnyShift(w, i, other_day, k) ==
    IF k > Len(shifts)
    THEN [found |-> FALSE, w |-> w]
    ELSE LET other_shift == shifts[k] IN
         IF _can_assign(w, i, other_day, other_shift)
         THEN [found |-> TRUE,
               w |-> print(_assign(w, i, other_day, other_shift),
                           [kind |-> "Resolved",
                            name |-> w.employees[i].name,
                            day |-> other_day, shift |-> other_shift,
                            how |-> "alternative assignment"])]
         ELSE TryAnyShift(w, i, other_day, k + 1)

\* Strategy 2 without its first try of the preferred shift on other_day
RECURSIVE TryOtherDays_any_shift(_, _, _, _, _)
TryOtherDays_any_shift(w, i, preferred_day, preferred_shift, other_day) ==
    IF other_day \notin days
    THEN [found |-> FALSE, w |-> w]
    ELSE IF other_day = preferred_day
    THEN TryOtherDays_any_shift(w, i, preferred_day, preferred_shift,
                                other_day + 1)
    ELSE LET r == TryAnyShift(w, i, other_day, 1) IN
         IF r.found
         THEN r
         ELSE TryOtherDays_any_shift(w, i, preferred_day, preferred_shift,
                                     other_day + 1)

\* Strategy 2, outer loop: the days from other_day on.
RECURSIVE TryOtherDays(_, _, _, _, _)
TryOtherDays(w, i, preferred_day, preferred_shift, other_day) ==
    IF other_day \notin days
    THEN [found |-> FALSE, w |-> w]
    ELSE IF other_day = preferred_day
    THEN TryOtherDays(w, i, preferred_day, preferred_shift, other_day + 1)
    ELSE IF _can_assign(w, i, other_day, preferred_shift)
    THEN [found |-> TRUE,
          w |-> print(_assign(w, i, other_day, preferred_shift),
                      [kind |-> "Resolved", name |-> w.employees[i].name,
                       day |-> other_day, shift |-> preferred_shift,
                       how |-> "moved to different day"])]
    ELSE LET r == TryAnyShift(w, i, other_day, 1) IN
         IF r.found
         THEN r
         ELSE TryOtherDays(w, i, preferred_day, preferred_shift,
                           other_day + 1)

\* _resolve_conflict with its two strategies in the other order
_resolve_conflict_other_days_first(w, i, preferred_day, preferred_shift) ==
    LET b == TryOtherDays(w, i, preferred_day, preferred_shift, 0) IN
    IF b.found
    THEN b.w
    ELSE LET a == TrySameDay(w, i, preferred_day, preferred_shift, 1) IN
         IF a.found
         THEN a.w
         ELSE print(w, [kind |-> "CouldNotAssign",
                        name |-> w.employees[i].name])

\* _resolve_conflict that gives up after strategy 1
_resolve_conflict_same_day_only(w, i, preferred_day, preferred_shift) ==
    LET a == TrySameDay(w, i, preferred_day, preferred_shift, 1) IN
    IF a.found
    THEN a.w
    ELSE print(w, [kind |-> "CouldNotAssign",
                   name |-> w.employees[i].name])

_resolve_conflict(w, i, preferred_day, preferred_shift) ==
    LET a == TrySameDay(w, i, preferred_day, preferred_shift, 1) IN
    IF a.found
    THEN a.w
    ELSE LET b == TryOtherDays(w, i, preferred_day, preferred_shift, 0) IN
         IF b.found
         THEN b.w
         ELSE print(w, [kind |-> "CouldNotAssign",
                        name |-> w.employees[i].name])

\* The body of the inner loop of _assign_preferred_shifts below its break
\* test, for employee i and day d.
AssignPreferred(w, i, d) ==
    LET preferred_shift == get_preference(w.employees[i], d) IN
    IF preferred_shift # None
    THEN IF _can_assign(w, i, d, preferred_shift)
         THEN _assign(w, i, d, preferred_shift)
         ELSE _resolve_conflict(w, i, d, preferred_shift)
    ELSE w

\* _get_available_employees that leaves out the last employee
_get_available_employees_but_last(w, d) ==
    SelectSeq([i \in 1 .. Len(w.employees) - 1 |-> i],
              LAMBDA i : can_work_day(w.employees[i], d))

\* The employees who can work on day d, as indices into employees, in
\* registration order.
_get_available_employees(w, d) ==
    SelectSeq([i \in 1 .. Len(w.employees) |-> i],
              LAMBDA i : can_work_day(w.employees[i], d))

----------------------------------------------------------------------------
(* random.shuffle                                                           *)

Reverse(s) == [k \in 1 .. Len(s) |-> s[Len(s) + 1 - k]]

Permutations_(s) ==
    {[k \in 1 .. Len(s) |-> s[p[k]]] :
        p \in {q \in [1 .. Len(s) -> 1 .. Len(s)] :
                  \A a, b \in 1 .. Len(s) : a # b => q[a] # q[b]}}

shuffle(s) ==
    IF Len(s) <= MaxShuffleLen THEN Permutations_(s) ELSE {Reverse(s)}

----------------------------------------------------------------------------
(* Phases 2 and 3 as functions of the state they start from                *)

\* The inner loop of _assign_preferred_shifts for employee i, from day d
\* onwards
RECURSIVE PreferredDaysFrom(_, _, _)
PreferredDaysFrom(w, i, d) ==
    IF d \notin days
       \/ w.employees[i].days_worked >= MAX_WORK_DAYS_PER_WEEK
    THEN w
    ELSE PreferredDaysFrom(AssignPreferred(w, i, d), i, d + 1)

\* The outer loop of _assign_preferred_shifts, from employee i onwards
RECURSIVE PreferredFrom(_, _)
PreferredFrom(w, i) ==
    IF i > Len(w.employees)
    THEN w
    ELSE PreferredFrom(PreferredDaysFrom(w, i, 0), i + 1)

_assign_preferred_shifts(w) == PreferredFrom(w, 1)

\* The loop of _ensure_minimum_staffing over the shuffled candidates of one
\* cell; the result holds the state and the number of candidates assigned.
RECURSIVE FillCell(_, _, _, _, _, _)
FillCell(w, d, s, available_employees, needed_, assigned_) ==
    IF available_employees = << >> \/ assigned_ >= needed_
    THEN [w |-> w, assigned |-> assigned_]
    ELSE LET employee == Head(available_employees) IN
         IF _can_assign(w, employee, d, s)
         THEN FillCell(_assign(w, employee, d, s), d, s,
                       Tail(available_employees), needed_, assigned_ + 1)
         ELSE FillCell(w, d, s,
                       Tail(available_employees), needed_, assigned_)

\* _ensure_minimum_staffing from day d, shift number k onwards, where
\* picks holds what each coming call of random.shuffle returns (a call
\* beyond the end of picks returns no candidates)
RECURSIVE StaffFrom(_, _, _, _)
StaffFrom(w, d, k, picks) ==
    IF d \notin days
    THEN w
    ELSE IF k > Len(shifts)
    THEN StaffFrom(w, d + 1, 1, picks)
    ELSE LET staff == Len(w.schedule[d][shifts[k]]) IN
         IF staff < MIN_EMPLOYEES_PER_SHIFT
         THEN LET need == MIN_EMPLOYEES_PER_SHIFT - staff
                  pick == IF picks = << >> THEN << >> ELSE Head(picks)
                  rest == IF picks = << >> THEN << >> ELSE Tail(picks)
                  r == FillCell(w, d, shifts[k], pick, need, 0)
              IN StaffFrom(IF r.assigned < need
                           THEN print(r.w,
                                    [kind |-> "Understaffed", day |-> d,
                                     shift |-> shifts[k],
                                     needs |-> need - r.assigned,
                                     have |-> staff + r.assigned])
                           ELSE r.w,
                           d, k + 1, rest)
         ELSE StaffFrom(w, d, k + 1, picks)

_ensure_minimum_staffing(w, picks) == StaffFrom(w, 0, 1, picks)


----------------------------------------------------------------------------
(* Inputs typed at the menu (main.py, Scheduler.add_employee)               *)

NoPreference == EmptyDict
MondayMorning == 0 :> "Morning"
TuesdayEvening == 1 :> "Evening"
EveryMorning == [d \in days |-> "Morning"]
MidweekAfternoons == [d \in {1, 2, 3} |-> "Afternoon"]

MondayTuesdayMornings == [d \in {0, 1} |-> "Morning"]
MondayTuesdayEvenings == [d \in {0, 1} |-> "Evening"]

\* The same shift on the five days Monday to Friday, or on both weekend days
Weekdays(s) == [d \in 0 .. 4 |-> s]
Weekend(s) == [d \in {5, 6} |-> s]

\* Enough employees to fill every cell of the week in phase 2 (eight for
\* each shift on the weekdays, then eight for each shift on the weekend),
\* followed by one more who states a preference for every day.
FullWeekPlusOne ==
    [k \in 1 .. 2 * Len(shifts) * MAX_EMPLOYEES_PER_SHIFT + 1 |->
        IF k <= Len(shifts) * MAX_EMPLOYEES_PER_SHIFT
        THEN Weekdays(shifts[((k - 1) \div MAX_EMPLOYEES_PER_SHIFT) + 1])
        ELSE IF k <= 2 * Len(shifts) * MAX_EMPLOYEES_PER_SHIFT
        THEN Weekend(shifts[((k - 1) \div MAX_EMPLOYEES_PER_SHIFT)
                              - Len(shifts) + 1])
        ELSE EveryMorning]

\* One more employee than the three shifts of a day can hold
DayCapacityPlusOne == Len(shifts) * MAX_EMPLOYEES_PER_SHIFT + 1

\* The answers the model types for the successive employees: every prefix
\* of one of these lists is a roster the model schedules.
Rosters ==
    { [k \in 1 .. DayCapacityPlusOne |-> MondayMorning],
      [k \in 1 .. DayCapacityPlusOne |->
          IF k <= MAX_EMPLOYEES_PER_SHIFT
          THEN MondayTuesdayMornings ELSE MondayMorning],
      [k \in 1 .. DayCapacityPlusOne |->
          IF k < DayCapacityPlusOne
          THEN MondayMorning ELSE MondayTuesdayEvenings],
      [k \in 1 .. MAX_EMPLOYEES_PER_SHIFT + 1 |-> TuesdayEvening],
      FullWeekPlusOne,
      <<NoPreference, NoPreference, NoPreference>>,
      <<EveryMorning, TuesdayEvening, NoPreference>>,
      <<MidweekAfternoons, NoPreference, EveryMorning>> }

Names ==
    <<"e1", "e2", "e3", "e4", "e5", "e6", "e7", "e8", "e9", "e10",
      "e11", "e12", "e13", "e14", "e15", "e16", "e17", "e18", "e19",
      "e20", "e21", "e22", "e23", "e24", "e25", "e26", "e27", "e28",
      "e29", "e30", "e31", "e32", "e33", "e34", "e35", "e36", "e37",
      "e38", "e39", "e40", "e41", "e42", "e43", "e44", "e45", "e46",
      "e47", "e48", "e49">>

Preferences(es) == [k \in 1 .. Len(es) |-> es[k].preferences]

\* The names typed for the next employee: the next unused name, an empty
\* line, and re-spellings of names already registered.
NameInputs ==
    {""} \cup {Names[k] : k \in {Len(employees) + 1} \cap DOMAIN Names}
         \cup {n \in {"E1", "E2"} :
                  \E k \in 1 .. Len(employees) : employees[k].name = Lower(n)}

\* The answers typed for the days: a dict day -> shift, a day left out
\* being an empty line.
AnswerInputs ==
    {r[Len(employees) + 1] : r \in {q \in Rosters : Len(q) > Len(employees)
        /\ \A k \in 1 .. Len(employees) : q[k] = employees[k].preferences}}

\* The loop of add_employee over day_names, from day d on.
RECURSIVE CollectPreferences(_, _, _)
CollectPreferences(e, answers, d) ==
    IF d \notin days
    THEN e
    ELSE IF d \in DOMAIN answers
         THEN CollectPreferences(set_preference(e, d, answers[d]),
                                 answers, d + 1)
         ELSE CollectPreferences(e, answers, d + 1)

add_employee(es, name, answers) ==
    IF name = ""
    THEN es
    ELSE IF \E k \in 1 .. Len(es) : is_duplicate_name(es[k], name)
         THEN es
         ELSE Append(es, CollectPreferences(Employee(name), answers, 0))

get_employee_count == Len(employees)

----------------------------------------------------------------------------
(* The state machine                                                        *)

Init ==
    /\ employees = << >>
    /\ schedule = EmptyGrid
    /\ pc = "menu"
    /\ emp = 0
    /\ day = 0
    /\ shift = 0
    /\ current_staff = 0
    /\ needed = 0
    /\ assigned = 0
    /\ available = << >>
    /\ out = << >>
    /\ shuffled = << >>

NoCell == /\ current_staff' = 0
          /\ needed' = 0
          /\ assigned' = 0
          /\ available' = << >>

SetWorld(w) == /\ employees' = w.employees
               /\ schedule' = w.schedule
               /\ out' = w.out

\* The menu of main.py is showing: nothing has been chosen since the program
\* started or since add_employee returned ("menu"), or assign_shifts has
\* just returned ("done").
AtMenu == pc \in {"menu", "done"}

\* main.py choice "1"
AddEmployee ==
    /\ AtMenu
    /\ \E name \in NameInputs, answers \in AnswerInputs :
          employees' = add_employee(employees, name, answers)
    /\ pc' = "menu"
    /\ UNCHANGED <<schedule, emp, day, shift, current_staff, needed,
                   assigned, available, out, shuffled>>

\* main.py choice "2": assign_shifts up to the end of _reset_schedules
ResetSchedules ==
    /\ AtMenu
    /\ get_employee_count # 0
    /\ SetWorld(_reset_schedules([World EXCEPT !.out = << >>]))
    /\ pc' = "phase2"
    /\ emp' = 1
    /\ day' = 0
    /\ shift' = 0
    /\ shuffled' = << >>
    /\ NoCell

\* The outer loop of phase 2 going over its last employee again and again
NextEmployee_repeats_last ==
    /\ pc' = "phase2"
    /\ emp' = IF emp < Len(employees) THEN emp + 1 ELSE emp
    /\ day' = 0
    /\ shift' = 0

\* The loops of _assign_preferred_shifts move on to the next employee, or
\* phase 2 ends and _ensure_minimum_staffing begins.
NextEmployee ==
    IF emp < Len(employees)
    THEN /\ pc' = "phase2"
         /\ emp' = emp + 1
         /\ day' = 0
         /\ shift' = 0
    ELSE /\ pc' = "phase3"
         /\ emp' = 0
         /\ day' = 0
         /\ shift' = 1

\* The inner loop of _assign_preferred_shifts without its break
AssignPreferredShifts_no_break ==
    /\ pc = "phase2"
    /\ SetWorld(AssignPreferred(World, emp, day))
    /\ IF day + 1 \in days
       THEN /\ day' = day + 1
            /\ UNCHANGED <<pc, emp, shift>>
       ELSE NextEmployee
    /\ shuffled' = shuffled
    /\ NoCell

\* One iteration of the inner loop of _assign_preferred_shifts
AssignPreferredShifts ==
    /\ pc = "phase2"
    /\ IF employees[emp].days_worked >= MAX_WORK_DAYS_PER_WEEK
       THEN /\ NextEmployee
            /\ UNCHANGED <<employees, schedule, out>>
       ELSE /\ SetWorld(AssignPreferred(World, emp, day))
            /\ IF day + 1 \in days
               THEN /\ day' = day + 1
                    /\ UNCHANGED <<pc, emp, shift>>
               ELSE NextEmployee
    /\ shuffled' = shuffled
    /\ NoCell

\* The loops of _ensure_minimum_staffing move on to the next cell, or
\* assign_shifts returns to the menu.
NextCell ==
    /\ IF shift < Len(shifts)
       THEN /\ shift' = shift + 1
            /\ day' = day
            /\ pc' = "phase3"
       ELSE IF day + 1 \in days
            THEN /\ shift' = 1
                 /\ day' = day + 1
                 /\ pc' = "phase3"
            ELSE /\ shift' = 0
                 /\ day' = 0
                 /\ pc' = "done"
    /\ NoCell

\* _ensure_minimum_staffing, one cell: lines 154-163
StaffCell ==
    /\ pc = "phase3"
    /\ LET staff == Len(schedule[day][shifts[shift]]) IN
       IF staff < MIN_EMPLOYEES_PER_SHIFT
       THEN /\ current_staff' = staff
            /\ needed' = MIN_EMPLOYEES_PER_SHIFT - staff
            /\ available' \in shuffle(_get_available_employees(World, day))
            /\ shuffled' = Append(shuffled, available')
            /\ assigned' = 0
            /\ pc' = "backfill"
            /\ UNCHANGED <<day, shift>>
       ELSE NextCell /\ shuffled' = shuffled
    /\ UNCHANGED <<employees, schedule, emp, out>>

\* Backfill reporting the shortfall the cell had before its candidates were
\* tried
Backfill_reports_needed ==
    /\ pc = "backfill"
    /\ IF available # << >> /\ assigned < needed
       THEN LET employee == Head(available) IN
            /\ IF _can_assign(World, employee, day, shifts[shift])
               THEN /\ SetWorld(_assign(World, employee, day, shifts[shift]))
                    /\ assigned' = assigned + 1
               ELSE UNCHANGED <<employees, schedule, out, assigned>>
            /\ available' = Tail(available)
            /\ UNCHANGED <<pc, day, shift, current_staff, needed>>
       ELSE /\ IF assigned < needed
               THEN SetWorld(print(World,
                        [kind |-> "Understaffed", day |-> day,
                         shift |-> shifts[shift],
                         needs |-> needed,
                         have |-> current_staff + assigned]))
               ELSE UNCHANGED <<employees, schedule, out>>
            /\ NextCell
    /\ UNCHANGED <<emp, shuffled>>

\* Backfill that goes on through its candidates after the shortfall is
\* covered
Backfill_all_candidates ==
    /\ pc = "backfill"
    /\ IF available # << >>
       THEN LET employee == Head(available) IN
            /\ IF _can_assign(World, employee, day, shifts[shift])
               THEN /\ SetWorld(_assign(World, employee, day, shifts[shift]))
                    /\ assigned' = assigned + 1
               ELSE UNCHANGED <<employees, schedule, out, assigned>>
            /\ available' = Tail(available)
            /\ UNCHANGED <<pc, day, shift, current_staff, needed>>
       ELSE /\ IF assigned < needed
               THEN SetWorld(print(World,
                        [kind |-> "Understaffed", day |-> day,
                         shift |-> shifts[shift],
                         needs |-> needed - assigned,
                         have |-> current_staff + assigned]))
               ELSE UNCHANGED <<employees, schedule, out>>
            /\ NextCell
    /\ UNCHANGED <<emp, shuffled>>

\* _ensure_minimum_staffing, one cell: one iteration of the loop over the
\* shuffled candidates (lines 164-170), or its end (lines 172-174)
Backfill ==
    /\ pc = "backfill"
    /\ IF available # << >> /\ assigned < needed
       THEN LET employee == Head(available) IN
            /\ IF _can_assign(World, employee, day, shifts[shift])
               THEN /\ SetWorld(_assign(World, employee, day, shifts[shift]))
                    /\ assigned' = assigned + 1
               ELSE UNCHANGED <<employees, schedule, out, assigned>>
            /\ available' = Tail(available)
            /\ UNCHANGED <<pc, day, shift, current_staff, needed>>
       ELSE /\ IF assigned < needed
               THEN SetWorld(print(World,
                        [kind |-> "Understaffed", day |-> day,
                         shift |-> shifts[shift],
                         needs |-> needed - assigned,
                         have |-> current_staff + assigned]))
               ELSE UNCHANGED <<employees, schedule, out>>
            /\ NextCell
    /\ UNCHANGED <<emp, shuffled>>

Next ==
    \/ AddEmployee
    \/ ResetSchedules
    \/ AssignPreferredShifts
    \/ StaffCell
    \/ Backfill

Spec == Init /\ [][Next]_vars

\* assign_shifts runs to completion once called: its loops have no
\* suspension point, so a run that has begun keeps taking its steps.
RunStep == AssignPreferredShifts \/ StaffCell \/ Backfill

LiveSpec == Spec /\ WF_vars(RunStep)

----------------------------------------------------------------------------
(* One Employee object driven through its public methods between runs      *)

\* employee.assign_shift(d, s) called directly, its return value dropped
AssignShiftCall ==
    /\ AtMenu
    /\ \E i \in 1 .. Len(employees), d \in days, s \in Shift :
          employees' = [employees EXCEPT ![i] = assign_shift(@, d, s).e]
    /\ UNCHANGED <<schedule, pc, emp, day, shift, current_staff, needed,
                   assigned, available, out, shuffled>>

\* employee.reset_schedule() called directly
ResetScheduleCall ==
    /\ AtMenu
    /\ \E i \in 1 .. Len(employees) :
          employees' = [employees EXCEPT ![i] = reset_schedule(@)]
    /\ UNCHANGED <<schedule, pc, emp, day, shift, current_staff, needed,
                   assigned, available, out, shuffled>>

\* The scheduler holds one employee, registered with one of the first
\* answers of Rosters.
InitEmployee ==
    /\ employees \in {add_employee(<< >>, Names[1], r[1]) : r \in Rosters}
    /\ schedule = EmptyGrid
    /\ pc = "menu"
    /\ emp = 0
    /\ day = 0
    /\ shift = 0
    /\ current_staff = 0
    /\ needed = 0
    /\ assigned = 0
    /\ available = << >>
    /\ out = << >>
    /\ shuffled = << >>

NextEmployeeApi ==
    \/ AssignShiftCall
    \/ ResetScheduleCall
    \/ ResetSchedules
    \/ AssignPreferredShifts
    \/ StaffCell
    \/ Backfill

EmployeeSpec == InitEmployee /\ [][NextEmployeeApi]_vars


----------------------------------------------------------------------------
(* Properties                                                               *)

\* The names in cell (d, s) of a grid
Cell(g, d, s) == {g[d][s][k] : k \in 1 .. Len(g[d][s])}

HasShift(e, d, s) == d \in DOMAIN e.schedule /\ e.schedule[d] = s

NoRepeats(q) == \A a, b \in 1 .. Len(q) : a # b => q[a] # q[b]

\* The names of the employees whose own schedule has shift s on day d
Holders(d, s) ==
    {employees[i].name :
        i \in {j \in 1 .. Len(employees) : HasShift(employees[j], d, s)}}

\* C1. Grid/person consistency: in every state, for every day d and shift
\* s, the names in schedule[d][s] are exactly the names of the employees P
\* with P.schedule[d] = s; no name is twice in a cell, and no name is in two
\* cells of the same day.
GridPersonConsistency ==
    \A d \in days, s \in Shift :
        /\ Cell(schedule, d, s) = Holders(d, s)
        /\ NoRepeats(schedule[d][s])
        /\ \A t \in Shift \ {s} :
              Cell(schedule, d, s) \cap Cell(schedule, d, t) = {}

\* A second run is under way after a reset of a filled grid is not visible
\* in the state; the witness is a backfill in progress in which one cell
\* holds a name put there by conflict resolution and another by backfill.
GridPersonConsistencyWitness ==
    /\ pc = "backfill"
    /\ assigned > 0
    /\ \E k \in 1 .. Len(out) : out[k].kind = "Resolved"
    /\ \E i \in 1 .. Len(employees) : employees[i].days_worked > 1

\* C2. Workload: after any sequence of assign_shift, reset_schedule and
\* assign_shifts, every employee has days_worked equal to the number of
\* entries of its schedule, and at most MAX_WORK_DAYS_PER_WEEK.
WorkloadInvariant ==
    \A i \in 1 .. Len(employees) :
        /\ employees[i].days_worked = Cardinality(DOMAIN employees[i].schedule)
        /\ employees[i].days_worked <= MAX_WORK_DAYS_PER_WEEK

\* An employee at the cap who works Sunday evening while the grid's Sunday
\* evening cell is empty: only direct assign_shift calls lead here.
WorkloadWitness ==
    /\ AtMenu
    /\ employees[1].days_worked = MAX_WORK_DAYS_PER_WEEK
    /\ HasShift(employees[1], 6, "Evening")
    /\ schedule[6]["Evening"] = << >>

\* C3. Capacity: every cell holds at most MAX_EMPLOYEES_PER_SHIFT names,
\* and every step of a run that adds a name to a cell appends the name of
\* one employee for whom _can_assign held on that cell in the state the
\* step started from.
CapacityBound ==
    \A d \in days, s \in Shift : Len(schedule[d][s]) <= MAX_EMPLOYEES_PER_SHIFT

AssignFollowsCheck ==
    \A d \in days, s \in Shift :
        (~AtMenu /\ schedule'[d][s] # schedule[d][s]) =>
            \E i \in 1 .. Len(employees) :
                /\ _can_assign(World, i, d, s)
                /\ schedule'[d][s] = Append(schedule[d][s], employees[i].name)

CapacityInvariant == []CapacityBound /\ [][AssignFollowsCheck]_vars

\* A full cell, with an employee turned away from it by conflict resolution
CapacityWitness ==
    /\ \E d \in days, s \in Shift :
          Len(schedule[d][s]) = MAX_EMPLOYEES_PER_SHIFT
    /\ \E k \in 1 .. Len(out) : out[k].kind = "Resolved"


\* C4. Termination: a run that has begun reaches its end, through phase 2
\* and then phase 3, phase 1 having been its first step; the state it ends
\* in satisfies the workload, capacity and consistency invariants.
PhaseOrder ==
    /\ AtMenu => pc' \in {"menu", "done", "phase2"}
    /\ pc = "phase2" => pc' \in {"phase2", "phase3"}
    /\ pc \in {"phase3", "backfill"} => pc' \in {"phase3", "backfill", "done"}
    /\ pc' = "phase2" /\ pc # "phase2" =>
          /\ \A i \in 1 .. Len(employees') : employees'[i].days_worked = 0
          /\ schedule' = EmptyGrid

Termination ==
    /\ (pc = "phase2") ~> (pc = "done")
    /\ [][PhaseOrder]_vars
    /\ [](pc = "done" =>
             WorkloadInvariant /\ CapacityBound /\ GridPersonConsistency)

IsUnderstaffed(m) == m.kind = "Understaffed"

\* A finished run that resolved a conflict and left cells understaffed
TerminationWitness ==
    /\ pc = "done"
    /\ \E k \in 1 .. Len(out) : IsUnderstaffed(out[k])
    /\ \E k \in 1 .. Len(out) : out[k].kind = "Resolved"

\* The k-th cell in the order of _ensure_minimum_staffing
CellDay(k) == (k - 1) \div Len(shifts)
CellShift(k) == shifts[((k - 1) % Len(shifts)) + 1]
NumCells == NumDays * Len(shifts)

ScenarioA == pc = "done" /\ Preferences(employees) = <<MondayMorning>>

\* out is one Understaffed message per cell, in cell order, the k-th
\* with shortfall shortfall[k]
UnderstaffedEverywhere(shortfall) ==
    /\ Len(out) = NumCells
    /\ \A k \in 1 .. NumCells :
          /\ IsUnderstaffed(out[k])
          /\ out[k].day = CellDay(k)
          /\ out[k].shift = CellShift(k)
          /\ out[k].needs = shortfall[k]

\* C5 as claimed. Scenario A: after the run the person works Monday
\* morning, and every cell has an Understaffed message, with shortfall 1
\* for Monday morning and 2 for every other cell.
ScenarioAClaimed ==
    ScenarioA =>
        /\ HasShift(employees[1], 0, "Morning")
        /\ UnderstaffedEverywhere([k \in 1 .. NumCells |-> IF k = 1 THEN 1 ELSE 2])

\* C5, amended. Scenario A: after the run the person works Monday morning,
\* and every cell has an Understaffed message, with shortfall 1 for the
\* morning cells of Monday to Friday (backfill assigns the person to the
\* Tuesday to Friday ones) and 2 for every other cell.
ScenarioAAmended ==
    ScenarioA =>
        /\ HasShift(employees[1], 0, "Morning")
        /\ UnderstaffedEverywhere(
              [k \in 1 .. NumCells |->
                  IF CellShift(k) = "Morning"
                     /\ CellDay(k) < MAX_WORK_DAYS_PER_WEEK
                  THEN 1 ELSE 2])

ScenarioAWitness == ScenarioA /\ Len(out) = NumCells

\* Phase 2 has just ended: _ensure_minimum_staffing is at its first cell
Phase2Done == pc = "phase3" /\ day = 0 /\ shift = 1

NobodyAssigned ==
    /\ \A i \in 1 .. Len(employees) : employees[i].schedule = EmptyDict
    /\ schedule = EmptyGrid

ScenarioD == Preferences(employees) = <<NoPreference, NoPreference>>

\* This step prints an Understaffed message
EmitsUnderstaffed ==
    /\ Len(out') = Len(out) + 1
    /\ IsUnderstaffed(out'[Len(out')])

\* C6 as claimed. Scenario D: phase 2 makes no assignment, and an
\* Understaffed message is printed only when both persons have reached
\* MAX_WORK_DAYS_PER_WEEK days worked.
ScenarioDClaimed ==
    /\ [](ScenarioD /\ Phase2Done => NobodyAssigned)
    /\ [][ScenarioD /\ EmitsUnderstaffed =>
             \A i \in 1 .. Len(employees) :
                 employees[i].days_worked = MAX_WORK_DAYS_PER_WEEK]_vars

\* C6, amended. Scenario D: phase 2 makes no assignment, and an
\* Understaffed message is printed for a cell only when each of the two
\* persons has reached MAX_WORK_DAYS_PER_WEEK days worked or already has an
\* assignment on that cell's day.
ScenarioDAmended ==
    /\ [](ScenarioD /\ Phase2Done => NobodyAssigned)
    /\ [][ScenarioD /\ EmitsUnderstaffed =>
             \A i \in 1 .. Len(employees) :
                 \/ employees[i].days_worked = MAX_WORK_DAYS_PER_WEEK
                 \/ day \in DOMAIN employees[i].schedule]_vars

\* Monday afternoon has been reported understaffed while both persons have
\* worked one day
ScenarioDWitness ==
    /\ ScenarioD
    /\ pc = "phase3"
    /\ \E k \in 1 .. Len(out) : IsUnderstaffed(out[k]) /\ out[k].day = 0
    /\ \A i \in 1 .. Len(employees) : employees[i].days_worked = 1

ScenarioB ==
    Preferences(employees) =
        [k \in 1 .. MAX_EMPLOYEES_PER_SHIFT + 1 |-> MondayMorning]

\* C7. Scenario B: at the end of phase 2 the Monday morning cell holds the
\* first MAX_EMPLOYEES_PER_SHIFT employees in registration order, the last
\* one works Monday afternoon, placed there by the same-day strategy, and
\* no could-not-assign warning is printed in the run.
ScenarioBOverflow ==
    ScenarioB =>
        /\ \A k \in 1 .. Len(out) : out[k].kind # "CouldNotAssign"
        /\ Phase2Done =>
              /\ schedule[0]["Morning"] =
                    [k \in 1 .. MAX_EMPLOYEES_PER_SHIFT |-> employees[k].name]
              /\ employees[Len(employees)].schedule = (0 :> "Afternoon")
              /\ schedule[0]["Afternoon"] = <<employees[Len(employees)].name>>
              /\ out = <<[kind |-> "Resolved",
                          name |-> employees[Len(employees)].name,
                          day |-> 0, shift |-> "Afternoon",
                          how |-> "preferred shift full"]>>

ScenarioBWitness == ScenarioB /\ Phase2Done

\* C8. Reset idempotence: from any reachable state _reset_schedules leaves
\* every employee with an empty schedule and days_worked 0 and every cell
\* empty, and a second _reset_schedules changes nothing.
AllEmpty(w) ==
    /\ \A i \in 1 .. Len(w.employees) :
          /\ w.employees[i].schedule = EmptyDict
          /\ w.employees[i].days_worked = 0
    /\ \A d \in days, s \in Shift : w.schedule[d][s] = << >>

ResetIdempotence ==
    LET once == _reset_schedules(World)
        twice == _reset_schedules(once)
    IN  /\ AllEmpty(once)
        /\ Len(once.employees) = Len(employees)
        /\ twice = once

\* The menu after a run that assigned shifts: the next run resets from here
ResetIdempotenceWitness ==
    /\ pc = "done"
    /\ \E i \in 1 .. Len(employees) : employees[i].days_worked > 0
    /\ schedule # EmptyGrid

\* C9. A scheduling run leaves the inputs untouched: every step of
\* assign_shifts leaves the names, the preferences and the order of the
\* registered employees unchanged.
Inputs(es) ==
    [k \in 1 .. Len(es) |->
        [name |-> es[k].name, preferences |-> es[k].preferences]]

InputsUntouched ==
    [][pc' # "menu" => Inputs(employees') = Inputs(employees)]_vars

\* A finished run over stated preferences, with shifts assigned
InputsUntouchedWitness ==
    /\ pc = "done"
    /\ Len(employees) > 1
    /\ \E i \in 1 .. Len(employees) :
          /\ employees[i].preferences # EmptyDict
          /\ employees[i].days_worked > 0

\* C10. Assignments are monotone within a run: every step other than the
\* reset that begins a run keeps each employee's assignment of each day as
\* it is and keeps each cell's names in place, new names being appended.
IsPrefix(q, r) == Len(q) <= Len(r) /\ \A k \in 1 .. Len(q) : q[k] = r[k]

KeepsAssignments ==
    ~(AtMenu /\ pc' = "phase2") =>
        /\ \A i \in 1 .. Len(employees) :
              /\ employees'[i].days_worked >= employees[i].days_worked
              /\ \A d \in DOMAIN employees[i].schedule :
                    /\ HasShift(employees'[i], d, employees[i].schedule[d])
                    /\ employees[i].name \in
                          Cell(schedule', d, employees[i].schedule[d])
        /\ \A d \in days, s \in Shift :
              IsPrefix(schedule[d][s], schedule'[d][s])

MonotoneAssignments == [][KeepsAssignments]_vars

\* Phase 3 is under way and an employee assigned its preference in phase 2
\* has since been given another day
MonotoneAssignmentsWitness ==
    /\ pc \in {"phase3", "backfill"}
    /\ \E i \in 1 .. Len(employees), d \in days :
          /\ d \in DOMAIN employees[i].preferences
          /\ HasShift(employees[i], d, employees[i].preferences[d])
          /\ employees[i].days_worked > 1

----------------------------------------------------------------------------
\* C11. The only nondeterminism is the phase 3 shuffle: whatever state a
\* run of assign_shifts started from, the state at the end of phase 2 is
\* the one phase 2 computes from the ordered roster and its preferences
\* alone, and the final grid, employee schedules and diagnostics are the
\* ones phase 3 computes from that and from the permutations the shuffles
\* returned.
Fresh(inputs) ==
    [employees |->
        [k \in 1 .. Len(inputs) |->
            [Employee(inputs[k].name)
                EXCEPT !.preferences = inputs[k].preferences]],
     schedule |-> EmptyGrid,
     out |-> << >>]

ShuffleIsOnlyChoice ==
    LET phase2 == _assign_preferred_shifts(Fresh(Inputs(employees))) IN
    /\ Phase2Done => World = phase2
    /\ pc = "done" => World = _ensure_minimum_staffing(phase2, shuffled)

\* A finished run over three employees, one of them with preferences, in
\* which a shuffle returned a reordered list and a cell stayed understaffed
ShuffleIsOnlyChoiceWitness ==
    /\ pc = "done"
    /\ Len(employees) = 3
    /\ \E k \in 1 .. Len(shuffled) :
          /\ Len(shuffled[k]) > 1
          /\ shuffled[k][1] > shuffled[k][2]
    /\ \E i \in 1 .. Len(employees) : employees[i].preferences # EmptyDict
    /\ \E k \in 1 .. Len(out) : IsUnderstaffed(out[k])

----------------------------------------------------------------------------
\* C12. assign_shift is guarded and all-or-nothing: called for a day that
\* is already in the schedule, or with days_worked at the weekly cap or
\* above, it returns False and changes neither schedule nor days_worked,
\* and _assign then leaves the grid as it was; called otherwise, it sets
\* schedule[day] to the shift, adds exactly 1 to days_worked and returns
\* True.
AssignShiftAllOrNothing ==
    \A i \in 1 .. Len(employees), d \in days, s \in Shift :
        LET e == employees[i]
            r == assign_shift(e, d, s)
        IN IF d \in DOMAIN e.schedule
              \/ e.days_worked >= MAX_WORK_DAYS_PER_WEEK
           THEN /\ r.ok = FALSE
                /\ r.e.schedule = e.schedule
                /\ r.e.days_worked = e.days_worked
                /\ _assign(World, i, d, s).schedule = schedule
           ELSE /\ r.ok = TRUE
                /\ r.e.schedule = Put(e.schedule, d, s)
                /\ r.e.days_worked = e.days_worked + 1
                /\ r.e.name = e.name
                /\ r.e.preferences = e.preferences

\* Between runs, an employee brought to the weekly cap by five accepted
\* direct calls, with Tuesday and Saturday still free: a further call is
\* refused for a day that is taken and, by the cap, for a day that is free.
AssignShiftAllOrNothingWitness ==
    /\ pc = "menu"
    /\ employees[1].days_worked = MAX_WORK_DAYS_PER_WEEK
    /\ DOMAIN employees[1].schedule = {0, 2, 3, 4, 6}
    /\ employees[1].schedule[0] = "Evening"

----------------------------------------------------------------------------
\* The preference phase 2 is about to visit, or None: there is none once
\* the employee has reached the weekly cap.
VisitedPreference ==
    IF pc = "phase2" /\ employees[emp].days_worked < MAX_WORK_DAYS_PER_WEEK
    THEN get_preference(employees[emp], day)
    ELSE None

\* The employee of the current phase 2 step is free on day d
IsFree(d) == d \notin DOMAIN employees[emp].schedule

\* Cell (d, s) has room for one more name
HasRoom(d, s) == Len(schedule[d][s]) < MAX_EMPLOYEES_PER_SHIFT

\* The step gives the employee of the current phase 2 step the one new
\* assignment (d, s) and changes no other assignment.
GainsExactly(d, s) ==
    /\ employees' = [employees EXCEPT
                        ![emp].schedule = Put(@, d, s),
                        ![emp].days_worked = @ + 1]
    /\ schedule' = [schedule EXCEPT
                       ![d][s] = Append(@, employees[emp].name)]

\* The shifts other than ps with room on day d, as indices into shifts
OpenAlternatives(d, ps) ==
    {k \in 1 .. Len(shifts) : shifts[k] # ps /\ HasRoom(d, shifts[k])}

Min(S) == CHOOSE x \in S : \A y \in S : x <= y

\* C13. Strategy A tie-break: when phase 2 visits a stated preference whose
\* cell is full while the employee is free that day, and some other shift
\* of that day has room, the step assigns the employee on that same day to
\* the first shift in the order Morning, Afternoon, Evening that is not the
\* preferred one and has room, and makes no other assignment.
SameDayFirstOpen ==
    LET ps == VisitedPreference IN
    (/\ ps # None
     /\ ~HasRoom(day, ps)
     /\ IsFree(day)
     /\ OpenAlternatives(day, ps) # {})
        => GainsExactly(day, shifts[Min(OpenAlternatives(day, ps))])

StrategyATieBreak == [][SameDayFirstOpen]_vars

\* Scenario C at the end of phase 2: the ninth of nine employees who all
\* prefer Tuesday evening works Tuesday morning, and Tuesday afternoon is
\* empty.
StrategyATieBreakWitness ==
    /\ Phase2Done
    /\ Preferences(employees)
          = [k \in 1 .. MAX_EMPLOYEES_PER_SHIFT + 1 |-> TuesdayEvening]
    /\ Len(schedule[1]["Evening"]) = MAX_EMPLOYEES_PER_SHIFT
    /\ schedule[1]["Morning"] = <<employees[Len(employees)].name>>
    /\ schedule[1]["Afternoon"] = << >>
    /\ employees[Len(employees)].schedule = (1 :> "Morning")

----------------------------------------------------------------------------
\* The days other than d in the order 0 .. 6, and the shifts with ps first
\* and the others after it in the order of shifts
OtherDays(d) == SelectSeq([k \in 1 .. NumDays |-> k - 1], LAMBDA x : x # d)
PreferredFirst(ps) == <<ps>> \o SelectSeq(shifts, LAMBDA s : s # ps)

\* The slots of the other days in that order: slot n is <<day, shift>>
SearchOrder(d, ps) ==
    [n \in 1 .. (NumDays - 1) * Len(shifts) |->
        <<OtherDays(d)[((n - 1) \div Len(shifts)) + 1],
          PreferredFirst(ps)[((n - 1) % Len(shifts)) + 1]>>]

\* The slots of SearchOrder on which the employee of the current phase 2
\* step is free and which have room
PassingSlots(d, ps) ==
    {n \in DOMAIN SearchOrder(d, ps) :
        /\ IsFree(SearchOrder(d, ps)[n][1])
        /\ HasRoom(SearchOrder(d, ps)[n][1], SearchOrder(d, ps)[n][2])}

\* C14. Strategy B search order: when phase 2 visits a stated preference
\* for which the direct assignment and strategy A both fail (the employee
\* already has an assignment that day, or every shift of the day is full),
\* and some slot of another day passes _can_assign, the step assigns the
\* employee to exactly the first such slot, going over the other days in
\* the order 0 .. 6 and on each trying the preferred shift first and then
\* the other shifts in the order of shifts, and to no other slot.
OtherDayFirstPassing ==
    LET ps == VisitedPreference IN
    (/\ ps # None
     /\ \/ ~IsFree(day)
        \/ \A s \in Shift : ~HasRoom(day, s)
     /\ PassingSlots(day, ps) # {})
        => LET slot == SearchOrder(day, ps)[Min(PassingSlots(day, ps))]
           IN GainsExactly(slot[1], slot[2])

StrategyBSearchOrder == [][OtherDayFirstPassing]_vars

\* The end of phase 2 for 24 employees who prefer Monday morning followed
\* by one who prefers Monday and Tuesday evening: with Monday full the last
\* one was moved to Tuesday evening (not to Tuesday morning), and its
\* Tuesday preference, met with Tuesday already taken by that relocation,
\* was moved to Wednesday evening.
StrategyBSearchOrderWitness ==
    /\ Phase2Done
    /\ Len(employees) = DayCapacityPlusOne
    /\ employees[Len(employees)].preferences = MondayTuesdayEvenings
    /\ \A s \in Shift : ~HasRoom(0, s)
    /\ employees[Len(employees)].schedule
          = (1 :> "Evening" @@ 2 :> "Evening")
    /\ schedule[1]["Evening"] = <<employees[Len(employees)].name>>
    /\ schedule[2]["Evening"] = <<employees[Len(employees)].name>>

----------------------------------------------------------------------------
\* Phase 2 leaves the current employee for the next one, or for phase 3
\* after the last one
MovesOn ==
    IF emp < Len(employees)
    THEN pc' = "phase2" /\ emp' = emp + 1 /\ day' = 0
    ELSE pc' = "phase3"

\* C15. Phase 2 truncation: phase 2 visits the days of an employee in the
\* order 0 .. 6, and a step that starts a day's iteration with the
\* employee's days_worked at 5 skips that day and all later days: it makes
\* no assignment, resolves no conflict, prints no diagnostic, and moves on
\* to the next employee.
TruncationStep ==
    pc = "phase2" =>
        IF employees[emp].days_worked >= MAX_WORK_DAYS_PER_WEEK
        THEN /\ UNCHANGED <<employees, schedule, out>>
             /\ MovesOn
        ELSE IF day + 1 \in days
             THEN pc' = "phase2" /\ emp' = emp /\ day' = day + 1
             ELSE MovesOn

Phase2Truncation == [][TruncationStep]_vars

\* The end of phase 2 for a roster whose first employee prefers the morning
\* of every day: that employee works Monday to Friday morning, its weekend
\* preferences were skipped, and nothing was printed.
Phase2TruncationWitness ==
    /\ Phase2Done
    /\ employees[1].preferences = EveryMorning
    /\ employees[1].schedule = Weekdays("Morning")
    /\ schedule[5]["Morning"] = << >>
    /\ schedule[6]["Morning"] = << >>
    /\ out = << >>

----------------------------------------------------------------------------
\* The step prints nothing, or one "Conflict resolved" line for slot (d, s)
PrintsAtMostResolved(d, s) ==
    \/ out' = out
    \/ /\ Len(out') = Len(out) + 1
       /\ SubSeq(out', 1, Len(out)) = out
       /\ out'[Len(out')].kind = "Resolved"
       /\ out'[Len(out')].name = employees[emp].name
       /\ out'[Len(out')].day = d
       /\ out'[Len(out')].shift = s

\* The step prints the warning for the current employee and assigns nothing
WarnsOnly ==
    /\ employees' = employees
    /\ schedule' = schedule
    /\ out' = Append(out, [kind |-> "CouldNotAssign",
                           name |-> employees[emp].name])

\* C16. Unresolved preferences: a phase 2 step that visits a stated
\* preference either gives the employee exactly one new assignment and
\* changes nothing else in schedules and grid, or prints the "could not
\* assign" warning for that employee and changes no schedule and no cell;
\* the warning is printed only when the employee is free on no day with a
\* shift that has room; and the step moves on to a later day or a later
\* employee, so that the preference is not visited again in the run.
OneOutcome ==
    VisitedPreference # None =>
        /\ \/ \E d \in days, s \in Shift :
                 GainsExactly(d, s) /\ PrintsAtMostResolved(d, s)
           \/ /\ WarnsOnly
              /\ \A d \in days, s \in Shift : ~(IsFree(d) /\ HasRoom(d, s))
        /\ pc' = "phase2" => \/ emp' = emp /\ day' > day
                             \/ emp' > emp

UnresolvedPreferences == [][OneOutcome]_vars

\* The end of phase 2 for a roster that fills every cell of the week
\* before its last employee, who prefers the morning of every day: seven
\* warnings for that employee, who has no assignment, while the preferences
\* of all the others were met.
UnresolvedPreferencesWitness ==
    /\ Phase2Done
    /\ Len(employees) = Len(FullWeekPlusOne)
    /\ \A d \in days, s \in Shift : ~HasRoom(d, s)
    /\ employees[Len(employees)].schedule = EmptyDict
    /\ out = [d \in 1 .. NumDays |->
                [kind |-> "CouldNotAssign",
                 name |-> employees[Len(employees)].name]]

----------------------------------------------------------------------------
\* The number of the cell phase 3 is at, in the order of days and, within a
\* day, of shifts
CellNumber(d, k) == d * Len(shifts) + k

\* This step of phase 3 is the last one on its cell
LeavesCell ==
    \/ pc' = "done"
    \/ pc' = "phase3" /\ CellNumber(day', shift') # CellNumber(day, shift)

\* The Understaffed message for cell number k with n names in the cell
UnderstaffedMessage(k, n) ==
    [kind |-> "Understaffed", day |-> CellDay(k), shift |-> CellShift(k),
     needs |-> MIN_EMPLOYEES_PER_SHIFT - n, have |-> n]

\* Phase 3, step by step: it stays on a cell, printing nothing, until it
\* leaves it for the next cell in order (or returns after the last one);
\* it leaves a cell that holds fewer than 2 names only with the candidates
\* exhausted, and then prints the Understaffed message with the shortfall
\* 2 minus the number of names in the cell; otherwise it prints nothing.
UnderstaffedStep ==
    pc \in {"phase3", "backfill"} =>
        LET k == CellNumber(day, shift)
            n == Len(schedule[day][shifts[shift]])
        IN IF LeavesCell
           THEN /\ IF k = NumCells
                   THEN pc' = "done"
                   ELSE pc' = "phase3" /\ CellNumber(day', shift') = k + 1
                /\ schedule' = schedule
                /\ IF n < MIN_EMPLOYEES_PER_SHIFT
                   THEN /\ pc = "backfill"
                        /\ available = << >>
                        /\ out' = Append(out, UnderstaffedMessage(k, n))
                   ELSE out' = out
           ELSE /\ pc' = "backfill"
                /\ CellNumber(day', shift') = k
                /\ out' = out

\* The cells that hold fewer than 2 names, in cell order
UnderstaffedCells ==
    SelectSeq([k \in 1 .. NumCells |-> k],
              LAMBDA k : Len(schedule[CellDay(k)][CellShift(k)])
                           < MIN_EMPLOYEES_PER_SHIFT)

\* At the end of a run the Understaffed messages are, in cell order, those
\* of the cells that hold fewer than 2 names, each with the shortfall 2
\* minus the number of names the cell holds at the end of the run.
UnderstaffedAtEnd ==
    pc = "done" =>
        SelectSeq(out, IsUnderstaffed)
          = [j \in 1 .. Len(UnderstaffedCells) |->
                UnderstaffedMessage(UnderstaffedCells[j],
                    Len(schedule[CellDay(UnderstaffedCells[j])]
                                [CellShift(UnderstaffedCells[j])]))]

\* C17. Understaffed diagnostic: phase 3 visits the 21 cells in the order
\* of days and, within a day, of shifts, and prints an Understaffed message
\* for a cell if and only if the cell still holds fewer than 2 names once
\* its candidates are exhausted; the shortfall it reports is 2 minus the
\* number of names in the cell at that moment, which is also the number at
\* the end of the run.
UnderstaffedDiagnostic == []UnderstaffedAtEnd /\ [][UnderstaffedStep]_vars

\* The end of a run in which one cell was reported with shortfall 1,
\* another with shortfall 2, and a third was filled up to the minimum
\* without a message
UnderstaffedDiagnosticWitness ==
    /\ pc = "done"
    /\ \E a, b \in 1 .. Len(out) :
          /\ IsUnderstaffed(out[a]) /\ out[a].needs = 1
          /\ IsUnderstaffed(out[b]) /\ out[b].needs = 2
    /\ Len(shuffled) > Len(SelectSeq(out, IsUnderstaffed))

----------------------------------------------------------------------------
\* C18. No idle capacity next to an understaffed cell: at the end of every
\* run, for every cell that holds fewer than 2 names, every employee of the
\* roster either has an assignment on the day of the cell or has
\* days_worked equal to 5.
NoIdleCapacity ==
    pc = "done" =>
        \A d \in days, s \in Shift :
            Len(schedule[d][s]) < MIN_EMPLOYEES_PER_SHIFT =>
                \A i \in 1 .. Len(employees) :
                    \/ d \in DOMAIN employees[i].schedule
                    \/ employees[i].days_worked = MAX_WORK_DAYS_PER_WEEK

\* The end of a run with an understaffed cell on a day on which one
\* employee, still below the cap, works another shift, and a second
\* understaffed cell on a day on which an employee at the cap does not work
NoIdleCapacityWitness ==
    /\ pc = "done"
    /\ \E d \in days, s \in Shift, i \in 1 .. Len(employees) :
          /\ Len(schedule[d][s]) < MIN_EMPLOYEES_PER_SHIFT
          /\ employees[i].days_worked < MAX_WORK_DAYS_PER_WEEK
          /\ d \in DOMAIN employees[i].schedule
          /\ employees[i].schedule[d] # s
    /\ \E d \in days, s \in Shift, i \in 1 .. Len(employees) :
          /\ Len(schedule[d][s]) < MIN_EMPLOYEES_PER_SHIFT
          /\ employees[i].days_worked = MAX_WORK_DAYS_PER_WEEK
          /\ d \notin DOMAIN employees[i].schedule

----------------------------------------------------------------------------
\* A phase 3 step changes no cell other than the one it is at, and that one
\* only while it holds fewer than 2 names and by appending one name.
BackfillStep ==
    pc \in {"phase3", "backfill"} =>
        \A d \in days, s \in Shift :
            schedule'[d][s] # schedule[d][s] =>
                /\ d = day
                /\ s = shifts[shift]
                /\ Len(schedule[d][s]) < MIN_EMPLOYEES_PER_SHIFT
                /\ Len(schedule'[d][s]) = Len(schedule[d][s]) + 1
                /\ IsPrefix(schedule[d][s], schedule'[d][s])

\* The grid at the end of phase 2 of the current run
Phase2Grid == _assign_preferred_shifts(Fresh(Inputs(employees))).schedule

\* At the end of a run each cell still begins with the names it held at the
\* end of phase 2; it holds exactly those if they were 2 or more, and at
\* most 2 names otherwise.
BackfillAtEnd ==
    pc = "done" =>
        LET g == Phase2Grid IN
        \A d \in days, s \in Shift :
            /\ IsPrefix(g[d][s], schedule[d][s])
            /\ IF Len(g[d][s]) >= MIN_EMPLOYEES_PER_SHIFT
               THEN schedule[d][s] = g[d][s]
               ELSE Len(schedule[d][s]) <= MIN_EMPLOYEES_PER_SHIFT

\* C19. Backfill stops at the minimum: phase 3 leaves unchanged every cell
\* that held at least 2 names at the end of phase 2 and never raises any
\* other cell above 2 names; it adds to a cell at most 2 minus its phase 2
\* count, and it only appends to the cell it is processing.
BackfillStopsAtMinimum == []BackfillAtEnd /\ [][BackfillStep]_vars

\* The end of a run in which phase 2 had left a cell with more than 2
\* names, a cell with 1 name and an empty cell, and phase 3 raised the
\* latter two to 2 names while more candidates were available
BackfillStopsAtMinimumWitness ==
    /\ pc = "done"
    /\ LET g == Phase2Grid IN
       /\ \E d \in days, s \in Shift :
             Len(g[d][s]) > MIN_EMPLOYEES_PER_SHIFT
       /\ \E d \in days, s \in Shift :
             /\ Len(g[d][s]) = 1
             /\ Len(schedule[d][s]) = MIN_EMPLOYEES_PER_SHIFT
       /\ \E d \in days, s \in Shift :
             /\ Len(g[d][s]) = 0
             /\ Len(schedule[d][s]) = MIN_EMPLOYEES_PER_SHIFT
             /\ \E i \in 1 .. Len(employees) :
                   d \notin DOMAIN employees[i].schedule

----------------------------------------------------------------------------
\* The first min(5, k) of the k days for which e states a preference
FirstPreferredDays(e) ==
    {d \in DOMAIN e.preferences :
        Cardinality({x \in DOMAIN e.preferences : x < d})
            < MAX_WORK_DAYS_PER_WEEK}

\* C20. Preferences are honoured when there is no contention: with a
\* roster of at most 8 employees, at the end of phase 2 every employee is
\* assigned its preferred shift on each of its first min(5, k) preferred
\* days (k the number of its stated preferences) and has no other
\* assignment, and no conflict resolution and no warning was printed; an
\* employee without preferences has no assignment.
PreferencesHonoured ==
    (Phase2Done /\ Len(employees) <= MAX_EMPLOYEES_PER_SHIFT) =>
        /\ out = << >>
        /\ \A i \in 1 .. Len(employees) :
              /\ employees[i].schedule
                    = [d \in FirstPreferredDays(employees[i]) |->
                          employees[i].preferences[d]]
              /\ employees[i].days_worked
                    = Cardinality(FirstPreferredDays(employees[i]))
              /\ employees[i].preferences = EmptyDict
                    => employees[i].schedule = EmptyDict

\* The end of phase 2 for eight employees who all prefer Monday and Tuesday
\* morning: both cells hold all eight, and nothing was printed.
PreferencesHonouredWitness ==
    /\ Phase2Done
    /\ Len(employees) = MAX_EMPLOYEES_PER_SHIFT
    /\ Len(schedule[0]["Morning"]) = MAX_EMPLOYEES_PER_SHIFT
    /\ Len(schedule[1]["Morning"]) = MAX_EMPLOYEES_PER_SHIFT
    /\ out = << >>

====
